---- MODULE Spec2Model ----
(***************************************************************************)
(* The round-based classification game of src/backend/main.py: one         *)
(* lifecycle task (game_loop), one websocket_endpoint handler per          *)
(* connection, the ConnectionManager registry, the GameState round state   *)
(* and the Redis leaderboard, as asyncio schedules them: one action is the *)
(* code a task runs between two awaits.                                    *)
(*                                                                         *)
(* Time is the value datetime.utcnow() returns, counted in tenths of a     *)
(* second, so that COOLDOWN_SECONDS = 0.3 is a whole number of ticks.      *)
(***************************************************************************)
EXTENDS Integers, Sequences, FiniteSets, TLC

\* ------------------------------------------------------------- constants

ROUND_DURATION_SECONDS == 60
CooldownTicks == 3
PauseSeconds == 5
TicksPerSecond == 10

RoundTicks == ROUND_DURATION_SECONDS * TicksPerSecond
PauseTicks == PauseSeconds * TicksPerSecond

\* --------------------------------------------------------------- bounds

\* one player: rounds the lifecycle loop starts, inbound messages
\* delivered, and Redis and transport failures
MaxRounds == 2
MaxMsgs == 2
MaxFaults == 1
\* a player and a listener: the same, both connections together
TwoRounds == 1
TwoMsgs == 2
TwoFaults == 1
\* two connections made under one client id
SameRounds == 1
SameMsgs == 1
SameFaults == 1

Conns == {"c1", "c2"}
ClientIds == {"a", "b"}
Labels == {"legitimo", "pirata"}
Difficulties == {1, 2, 3}
Actions == {"approve", "denounce"}

\* the instants at which the clock is read
\* at process start, just before and at one cooldown interval later, and
\* at the nominal start and expiry of each round
Instants ==
    {0, CooldownTicks - 1, CooldownTicks}
    \cup { r * (RoundTicks + PauseTicks) : r \in 0..(MaxRounds - 1) }
    \cup { r * (RoundTicks + PauseTicks) + RoundTicks : r \in 0..(MaxRounds - 2) }

\* Optional[...]: None, or a one-element tuple holding the value
None == << >>
Some(x) == << x >>
Val(o) == o[1]

Free == "free"
Loop == "loop"

VARIABLES
    now,                \* datetime.utcnow()
    cards,              \* game_state.cards
    round_end_time,     \* game_state.round_end_time
    lock,               \* game_state.lock: Free, Loop or the holding connection
    active_connections, \* manager.active_connections: client id -> connection
    last_click_time,    \* manager.last_click_time: client id -> time
    leaderboard,        \* the Redis sorted set LEADERBOARD_KEY: member -> score
    loop,               \* the game_loop task: position and locals
    roundNo,            \* rounds generated so far (numbers the uuid4 card ids)
    h,                  \* the websocket_endpoint tasks: position and locals
    env,                \* what the environment may still do: connections
                        \* that come, messages, failures, rounds
    up,                 \* whether a connection's transport still works
    lifecycle,          \* the new_round / round_end broadcasts made, in order
    ev                  \* what the last step did

vars == << now, cards, round_end_time, lock, active_connections,
           last_click_time, leaderboard, loop, roundNo, h, env, up, lifecycle,
           ev >>

\* ------------------------------------------------------------ GameState

is_round_active == round_end_time # None /\ now < Val(round_end_time)

\* get_time_remaining without the clamp to zero
M_get_time_remaining_unclamped ==
    IF round_end_time = None THEN 0
    ELSE (Val(round_end_time) - now) \div TicksPerSecond

get_time_remaining ==
    IF ~is_round_active THEN 0
    ELSE (Val(round_end_time) - now) \div TicksPerSecond

\* ------------------------------------------------------------- OfferCard

\* uuid4 ids: the k-th card of the r-th generated deck
OfferCard(r, k, label, difficulty) ==
    [id |-> << r, k >>, label |-> label, difficulty |-> difficulty]

\* the deck the generator answers with: a card of each label and difficulty
Kinds ==
    << << "legitimo", 1 >>, << "pirata", 1 >>, << "legitimo", 2 >>,
       << "pirata", 2 >>, << "legitimo", 3 >>, << "pirata", 3 >> >>

GeneratedDecks(r) ==
    { [k \in 1..Len(Kinds) |-> OfferCard(r, k, Kinds[k][1], Kinds[k][2])] }

FallbackDeck(r) == << OfferCard(r, 1, "pirata", 1) >>

\* generate_cards_from_openai answering an empty deck when the API fails
M_generate_cards_empty_on_failure(r, ok, deck) ==
    IF ok THEN deck ELSE << >>

generate_cards_from_openai(r, ok, deck) ==
    IF ok THEN deck ELSE FallbackDeck(r)

\* ---------------------------------------------------------- leaderboard

Member(client_id, nickname) == << client_id, nickname >>

get_leaderboard == leaderboard

update_score(client_id, nickname, score_change) ==
    LET member == Member(client_id, nickname)
        old == IF member \in DOMAIN leaderboard THEN leaderboard[member] ELSE 0
    IN  [m \in DOMAIN leaderboard \cup {member} |->
            IF m = member THEN old + score_change ELSE leaderboard[m]]

\* ------------------------------------------------------------ game logic

DictGet(d, key, default) == IF key \in DOMAIN d THEN d[key] ELSE default

BaseScores == (1 :> 30) @@ (2 :> 60) @@ (3 :> 100)
Penalties == ((0 - 1) :> (0 - 20)) @@ ((0 - 2) :> (0 - 30)) @@ ((0 - 3) :> (0 - 40))

\* calculate_score with the bonus rounded up
M_calculate_score_rounds_up(guess, card) ==
    IF guess = card.label
    THEN LET base_score == DictGet(BaseScores, card.difficulty, 30)
             time_left == get_time_remaining
             time_bonus == (base_score * time_left + ROUND_DURATION_SECONDS - 1)
                               \div ROUND_DURATION_SECONDS
         IN  base_score + time_bonus
    ELSE DictGet(Penalties, card.difficulty, 0 - 20)

calculate_score(guess, card) ==
    IF guess = card.label
    THEN LET base_score == DictGet(BaseScores, card.difficulty, 30)
             time_left == get_time_remaining
             time_bonus == (base_score * time_left) \div ROUND_DURATION_SECONDS
         IN  base_score + time_bonus
    ELSE DictGet(Penalties, card.difficulty, 0 - 20)

\* ----------------------------------------------------- ConnectionManager

connect(c, client_id) ==
    [k \in DOMAIN active_connections \cup {client_id} |->
        IF k = client_id THEN c ELSE active_connections[k]]

DictDel(d, key) == [k \in DOMAIN d \ {key} |-> d[k]]

disconnect(client_id) ==
    /\ active_connections' = DictDel(active_connections, client_id)
    /\ last_click_time' = DictDel(last_click_time, client_id)

\* is_on_cooldown rejecting at exactly the interval too
M_on_cooldown_inclusive(client_id) ==
    /\ client_id \in DOMAIN last_click_time
    /\ now - last_click_time[client_id] <= CooldownTicks

\* is_on_cooldown's answer, and the stamps it leaves
on_cooldown(client_id) ==
    /\ client_id \in DOMAIN last_click_time
    /\ now - last_click_time[client_id] < CooldownTicks

\* is_on_cooldown stamping before it decides
M_is_on_cooldown_stamps_always(client_id) ==
    [k \in DOMAIN last_click_time \cup {client_id} |->
        IF k = client_id THEN now ELSE last_click_time[k]]

is_on_cooldown_stamps(client_id) ==
    IF on_cooldown(client_id) THEN last_click_time
    ELSE [k \in DOMAIN last_click_time \cup {client_id} |->
            IF k = client_id THEN now ELSE last_click_time[k]]

\* the sockets one broadcast call sends to
BroadcastTargets == { active_connections[k] : k \in DOMAIN active_connections }

\* gather without return_exceptions: a failed send raises out of broadcast
M_broadcast_raises(targets) ==
    [to |-> targets, ok |-> { t \in targets : up[t] },
     raised |-> \E t \in targets : ~up[t]]

\* gather(..., return_exceptions=True): every send runs, none raises
broadcast(targets) ==
    [to |-> targets, ok |-> { t \in targets : up[t] }, raised |-> FALSE]

\* ---------------------------------------------------------------- Init

LoopInit == [pc |-> "start", wake |-> 0, targets |-> {},
             final_leaderboard |-> << >>, gen_ok |-> TRUE]

NoCard == [id |-> << 0, 0 >>, label |-> "", difficulty |-> 0]

\* the path parameters of each connection's URL
ClientIdOf(c) == IF c = "c1" THEN "a" ELSE "b"
NicknameOf(c) == c

HInit(c) == [pc |-> "idle", client_id |-> ClientIdOf(c), message |-> "",
             guess |-> "", card |-> NoCard, score_change |-> 0, targets |-> {},
             snapshot |-> None]

Start ==
    /\ now = 0
    /\ cards = << >>
    /\ round_end_time = None
    /\ lock = Free
    /\ active_connections = << >>
    /\ last_click_time = << >>
    /\ leaderboard = << >>
    /\ loop = LoopInit
    /\ roundNo = 0
    /\ h = [c \in Conns |-> HInit(c)]
    /\ up = [c \in Conns |-> TRUE]
    /\ lifecycle = << >>
    /\ ev = [op |-> "init"]

Init ==
    /\ Start
    /\ env = [conns |-> {"c1"}, senders |-> {"c1"}, rounds |-> MaxRounds,
              msgs |-> MaxMsgs, faults |-> MaxFaults]

InitTwo ==
    /\ Start
    /\ env = [conns |-> Conns, senders |-> {"c1"}, rounds |-> TwoRounds,
              msgs |-> TwoMsgs, faults |-> TwoFaults]

\* both connections opened on /ws/a/...: the second reuses the client id
InitSame ==
    /\ now = 0
    /\ cards = << >>
    /\ round_end_time = None
    /\ lock = Free
    /\ active_connections = << >>
    /\ last_click_time = << >>
    /\ leaderboard = << >>
    /\ loop = LoopInit
    /\ roundNo = 0
    /\ h = [c \in Conns |-> [HInit(c) EXCEPT !.client_id = "a"]]
    /\ up = [c \in Conns |-> TRUE]
    /\ lifecycle = << >>
    /\ ev = [op |-> "init"]
    /\ env = [conns |-> Conns, senders |-> {"c1"}, rounds |-> SameRounds,
              msgs |-> SameMsgs, faults |-> SameFaults]

\* --------------------------------------------------------- environment

\* an awaited Redis call returns (TRUE) or raises (FALSE)
Outcomes == IF env.faults > 0 THEN BOOLEAN ELSE {TRUE}

Outcome(ok) == env' = IF ok THEN env ELSE [env EXCEPT !.faults = @ - 1]

\* ---------------------------------------------------------------- clock

Tick ==
    /\ \E t \in Instants :
        /\ t > now
        /\ \A u \in Instants : u > now => t <= u
        /\ now' = t
    /\ ev' = [op |-> "tick"]
    /\ UNCHANGED << cards, round_end_time, lock, active_connections,
                    last_click_time, leaderboard, loop, roundNo, h, env, up,
                    lifecycle >>

\* ------------------------------------------------------------ game_loop

\* game_loop -> start_new_round: `async with game_state.lock`, then the
\* DELETE is awaited
LoopAcquire ==
    /\ loop.pc = "start"
    /\ roundNo < env.rounds
    /\ lock = Free
    /\ lock' = Loop
    /\ loop' = [loop EXCEPT !.pc = "delete"]
    /\ ev' = [op |-> "acquire", who |-> Loop]
    /\ UNCHANGED << now, cards, round_end_time, active_connections,
                    last_click_time, leaderboard, roundNo, h, env, up, lifecycle >>

\* redis_client.delete(LEADERBOARD_KEY) returns, or raises out of
\* start_new_round and game_loop (the lock is released on the way out)
LoopDelete ==
    /\ loop.pc = "delete"
    /\ \E ok \in Outcomes :
        /\ Outcome(ok)
        /\ IF ok
           THEN /\ leaderboard' = << >>
                /\ loop' = [loop EXCEPT !.pc = "generate"]
                /\ ev' = [op |-> "reset", who |-> Loop]
                /\ UNCHANGED lock
           ELSE /\ loop' = [loop EXCEPT !.pc = "dead"]
                /\ lock' = Free
                /\ ev' = [op |-> "raise", who |-> Loop]
                /\ UNCHANGED leaderboard
    /\ UNCHANGED << now, cards, round_end_time, active_connections,
                    last_click_time, roundNo, h, up, lifecycle >>

\* start_new_round swapping the deck and leaving the expiration for later
M_start_new_round_deck_only(ok, deck) ==
    LET new_cards == generate_cards_from_openai(roundNo + 1, ok, deck)
        targets == BroadcastTargets
    IN  /\ cards' = new_cards
        /\ round_end_time' = round_end_time
        /\ roundNo' = roundNo + 1
        /\ lifecycle' = Append(lifecycle, [type |-> "new_round", cards |-> new_cards])
        /\ IF targets = {}
           THEN /\ lock' = Free
                /\ loop' = [loop EXCEPT !.pc = "sleep", !.wake = now + RoundTicks,
                                        !.gen_ok = ok, !.targets = {}]
           ELSE /\ lock' = lock
                /\ loop' = [loop EXCEPT !.pc = "bc_new", !.gen_ok = ok,
                                        !.targets = targets]
        /\ ev' = [op |-> "new_round", who |-> Loop, to |-> targets]

\* the rest of start_new_round up to the await inside broadcast, and, when
\* nobody is registered, on to asyncio.sleep(ROUND_DURATION_SECONDS)
start_new_round(ok, deck) ==
    LET new_cards == generate_cards_from_openai(roundNo + 1, ok, deck)
        targets == BroadcastTargets
    IN  /\ cards' = new_cards
        /\ round_end_time' = Some(now + RoundTicks)
        /\ roundNo' = roundNo + 1
        /\ lifecycle' = Append(lifecycle, [type |-> "new_round", cards |-> new_cards])
        /\ IF targets = {}
           THEN /\ lock' = Free
                /\ loop' = [loop EXCEPT !.pc = "sleep", !.wake = now + RoundTicks,
                                        !.gen_ok = ok, !.targets = {}]
           ELSE /\ lock' = lock
                /\ loop' = [loop EXCEPT !.pc = "bc_new", !.gen_ok = ok,
                                        !.targets = targets]
        /\ ev' = [op |-> "new_round", who |-> Loop, to |-> targets]

LoopGenerate ==
    /\ loop.pc = "generate"
    /\ \E ok \in BOOLEAN : \E deck \in GeneratedDecks(roundNo + 1) :
        start_new_round(ok, deck)
    /\ UNCHANGED << now, active_connections, last_click_time, leaderboard,
                    h, env, up >>

\* the new_round broadcast returns; the lock is released; the loop sleeps
LoopBroadcastNewRound ==
    /\ loop.pc = "bc_new"
    /\ LET r == broadcast(loop.targets)
       IN  /\ ev' = [op |-> "broadcast", who |-> Loop, type |-> "new_round",
                     to |-> r.to, ok |-> r.ok, raised |-> r.raised]
           /\ loop' = IF r.raised
                      THEN [loop EXCEPT !.pc = "dead", !.targets = {}]
                      ELSE [loop EXCEPT !.pc = "sleep", !.targets = {},
                                        !.wake = now + RoundTicks]
    /\ lock' = Free
    /\ UNCHANGED << now, cards, round_end_time, active_connections,
                    last_click_time, leaderboard, roundNo, h, env, up, lifecycle >>

\* game_loop going from the round's sleep straight to the pause
M_LoopWake_skips_round_end ==
    /\ loop.pc = "sleep"
    /\ now >= loop.wake
    /\ loop' = [loop EXCEPT !.pc = "pause", !.wake = now + PauseTicks]
    /\ ev' = [op |-> "wake", who |-> Loop]
    /\ UNCHANGED << now, cards, round_end_time, lock, active_connections,
                    last_click_time, leaderboard, roundNo, h, env, up, lifecycle >>

\* asyncio.sleep(ROUND_DURATION_SECONDS) returns; get_leaderboard is awaited
LoopWake ==
    /\ loop.pc = "sleep"
    /\ now >= loop.wake
    /\ loop' = [loop EXCEPT !.pc = "get_lb"]
    /\ ev' = [op |-> "wake", who |-> Loop]
    /\ UNCHANGED << now, cards, round_end_time, lock, active_connections,
                    last_click_time, leaderboard, roundNo, h, env, up, lifecycle >>

\* get_leaderboard returns (or raises out of game_loop); round_end is
\* broadcast; with nobody registered, on to asyncio.sleep(5)
LoopRoundEnd ==
    /\ loop.pc = "get_lb"
    /\ \E ok \in Outcomes :
        /\ Outcome(ok)
        /\ IF ok
           THEN LET targets == BroadcastTargets
                IN  /\ lifecycle' = Append(lifecycle, [type |-> "round_end"])
                    /\ loop' = IF targets = {}
                               THEN [loop EXCEPT !.pc = "pause",
                                                 !.wake = now + PauseTicks,
                                                 !.final_leaderboard = get_leaderboard]
                               ELSE [loop EXCEPT !.pc = "bc_end",
                                                 !.targets = targets,
                                                 !.final_leaderboard = get_leaderboard]
                    /\ ev' = [op |-> "round_end", who |-> Loop, to |-> targets]
           ELSE /\ loop' = [loop EXCEPT !.pc = "dead"]
                /\ ev' = [op |-> "raise", who |-> Loop]
                /\ UNCHANGED lifecycle
    /\ UNCHANGED << now, cards, round_end_time, lock, active_connections,
                    last_click_time, leaderboard, roundNo, h, up >>

LoopBroadcastRoundEnd ==
    /\ loop.pc = "bc_end"
    /\ LET r == broadcast(loop.targets)
       IN  /\ ev' = [op |-> "broadcast", who |-> Loop, type |-> "round_end",
                     to |-> r.to, ok |-> r.ok, raised |-> r.raised]
           /\ loop' = IF r.raised
                      THEN [loop EXCEPT !.pc = "dead", !.targets = {}]
                      ELSE [loop EXCEPT !.pc = "pause", !.targets = {},
                                        !.wake = now + PauseTicks]
    /\ UNCHANGED << now, cards, round_end_time, lock, active_connections,
                    last_click_time, leaderboard, roundNo, h, env, up, lifecycle >>

\* asyncio.sleep(5) returns; back to the top of `while True`
LoopPauseEnd ==
    /\ loop.pc = "pause"
    /\ now >= loop.wake
    /\ loop' = [loop EXCEPT !.pc = "start", !.final_leaderboard = << >>]
    /\ ev' = [op |-> "wake", who |-> Loop]
    /\ UNCHANGED << now, cards, round_end_time, lock, active_connections,
                    last_click_time, leaderboard, roundNo, h, env, up, lifecycle >>

game_loop ==
    \/ LoopAcquire
    \/ LoopDelete
    \/ LoopGenerate
    \/ LoopBroadcastNewRound
    \/ LoopWake
    \/ LoopRoundEnd
    \/ LoopBroadcastRoundEnd
    \/ LoopPauseEnd

\* --------------------------------------------------- websocket_endpoint

\* card ids a client can have seen, and one it cannot
BogusId == << 0, 0 >>
KnownIds == { << r, k >> : r \in 1..roundNo, k \in 1..Len(Kinds) } \cup {BogusId}

\* inbound JSON objects: guesses, and objects lacking a key
Messages ==
    [action : Actions, card_id : KnownIds]
        \cup { [action |-> "approve"], [card_id |-> BogusId] }

\* the handler ends: the framework closes its socket
Ended(c) == [h EXCEPT ![c].pc = "done", ![c].message = "", ![c].guess = "", ![c].card = NoCard,
                      ![c].score_change = 0, ![c].targets = {},
                      ![c].snapshot = None]

\* the join snapshot taken whether or not a round is active
M_join_snapshot_unconditional(c, hh) ==
    /\ lock' = c
    /\ h' = [hh EXCEPT ![c].pc = "gs",
                       ![c].snapshot =
                          Some([cards |-> cards, expires_at |-> round_end_time])]

\* `async with game_state.lock` entered: the join snapshot, built before
\* send_json is awaited
join_snapshot(c, hh) ==
    IF is_round_active
    THEN /\ lock' = c
         /\ h' = [hh EXCEPT ![c].pc = "gs",
                            ![c].snapshot =
                               Some([cards |-> cards,
                                     expires_at |-> round_end_time])]
    ELSE /\ lock' = lock
         /\ h' = [hh EXCEPT ![c].pc = "lb0"]

\* manager.connect: accept() returns and the socket is registered; the lock
\* is taken at once when it is free
Connect(c) ==
    /\ h[c].pc = "idle"
    /\ c \in env.conns
    /\ active_connections' = connect(c, h[c].client_id)
    /\ IF lock = Free
       THEN join_snapshot(c, h)
       ELSE /\ h' = [h EXCEPT ![c].pc = "lock"]
            /\ lock' = lock
    /\ ev' = [op |-> "connect", who |-> c]
    /\ UNCHANGED << now, cards, round_end_time, last_click_time, leaderboard,
                    loop, roundNo, env, up, lifecycle >>

AcquireJoin(c) ==
    /\ h[c].pc = "lock"
    /\ lock = Free
    /\ join_snapshot(c, h)
    /\ ev' = [op |-> "acquire", who |-> c]
    /\ UNCHANGED << now, cards, round_end_time, active_connections,
                    last_click_time, leaderboard, loop, roundNo, env, up,
                    lifecycle >>

\* websocket.send_json(game_state) returns or raises; either way the lock
\* is released; a raise leaves the handler (it is outside the try)
SendGameState(c) ==
    /\ h[c].pc = "gs"
    /\ lock' = Free
    /\ h' = IF up[c] THEN [h EXCEPT ![c].pc = "lb0", ![c].snapshot = None]
            ELSE Ended(c)
    /\ ev' = [op |-> "send", who |-> c, type |-> "game_state", to |-> {c},
              ok |-> IF up[c] THEN {c} ELSE {},
              cards |-> Val(h[c].snapshot).cards,
              expires_at |-> Val(h[c].snapshot).expires_at]
    /\ UNCHANGED << now, cards, round_end_time, active_connections,
                    last_click_time, leaderboard, loop, roundNo, env, up,
                    lifecycle >>

\* get_leaderboard() before the receive loop returns or raises
JoinGetLeaderboard(c) ==
    /\ h[c].pc = "lb0"
    /\ \E ok \in Outcomes :
        /\ Outcome(ok)
        /\ h' = IF ok THEN [h EXCEPT ![c].pc = "lbsend"] ELSE Ended(c)
        /\ up' = IF ok THEN up ELSE [up EXCEPT ![c] = FALSE]
        /\ ev' = [op |-> IF ok THEN "get_leaderboard" ELSE "raise", who |-> c]
    /\ UNCHANGED << now, cards, round_end_time, lock, active_connections,
                    last_click_time, leaderboard, loop, roundNo,
                    lifecycle >>

JoinSendLeaderboard(c) ==
    /\ h[c].pc = "lbsend"
    /\ h' = IF up[c] THEN [h EXCEPT ![c].pc = "recv"] ELSE Ended(c)
    /\ ev' = [op |-> "send", who |-> c, type |-> "leaderboard_update",
              to |-> {c}, ok |-> IF up[c] THEN {c} ELSE {}]
    /\ UNCHANGED << now, cards, round_end_time, lock, active_connections,
                    last_click_time, leaderboard, loop, roundNo, env, up,
                    lifecycle >>

\* the card lookup defaulting to the first card of the deck
M_FindCard_defaults(card_id) ==
    LET hits == { i \in 1..Len(cards) : cards[i].id = card_id }
    IN  IF cards = << >> THEN None
        ELSE IF hits = {} THEN Some(cards[1])
        ELSE Some(cards[CHOOSE i \in hits : \A j \in hits : i <= j])

\* the first card of the deck with this id, as next(...) finds it
FindCard(card_id) ==
    LET hits == { i \in 1..Len(cards) : cards[i].id = card_id }
    IN  IF hits = {} THEN None
        ELSE Some(cards[CHOOSE i \in hits : \A j \in hits : i <= j])

\* one pass of the receive loop, from receive_json's return to the next await
handle_message(c, data) ==
    LET client_id == h[c].client_id
    IN  IF ~({"action", "card_id"} \subseteq DOMAIN data)
        THEN /\ ev' = [op |-> "recv", who |-> c, data |-> data, path |-> "malformed"]
             /\ UNCHANGED << h, last_click_time >>
        ELSE IF ~is_round_active
        THEN /\ ev' = [op |-> "recv", who |-> c, data |-> data, path |-> "inactive"]
             /\ h' = [h EXCEPT ![c].pc = "err", ![c].message = "Round not active."]
             /\ UNCHANGED last_click_time
        ELSE IF on_cooldown(client_id)
        THEN /\ ev' = [op |-> "recv", who |-> c, data |-> data, path |-> "cooldown"]
             /\ h' = [h EXCEPT ![c].pc = "err", ![c].message = "Cooldown active."]
             /\ last_click_time' = is_on_cooldown_stamps(client_id)
        ELSE LET guess == IF data.action = "approve" THEN "legitimo" ELSE "pirata"
                 card == FindCard(data.card_id)
             IN  /\ last_click_time' = is_on_cooldown_stamps(client_id)
                 /\ IF card = None
                    THEN /\ ev' = [op |-> "recv", who |-> c, data |-> data,
                                   path |-> "unmatched"]
                         /\ UNCHANGED h
                    ELSE LET score_change == calculate_score(guess, Val(card))
                         IN  /\ ev' = [op |-> "recv", who |-> c, data |-> data,
                                       path |-> "scored"]
                             /\ h' = [h EXCEPT ![c].pc = "upd",
                                               ![c].guess = guess,
                                               ![c].card = Val(card),
                                               ![c].score_change = score_change]

Receive(c) ==
    /\ h[c].pc = "recv"
    /\ up[c]
    /\ c \in env.senders
    /\ env.msgs > 0
    /\ env' = [env EXCEPT !.msgs = @ - 1]
    /\ \E data \in Messages : handle_message(c, data)
    /\ UNCHANGED << now, cards, round_end_time, lock, active_connections,
                    leaderboard, loop, roundNo, up, lifecycle >>

\* an exception inside the try: manager.disconnect(client_id), handler ends
Except(c) ==
    /\ disconnect(h[c].client_id)
    /\ h' = Ended(c)
    /\ up' = [up EXCEPT ![c] = FALSE]

\* receive_json raises WebSocketDisconnect
ReceiveDisconnect(c) ==
    /\ h[c].pc = "recv"
    /\ ~up[c]
    /\ Except(c)
    /\ ev' = [op |-> "disconnect", who |-> c]
    /\ UNCHANGED << now, cards, round_end_time, lock, leaderboard, loop,
                    roundNo, env, lifecycle >>

\* send_json(error) returns (back to receive_json) or raises
SendError(c) ==
    /\ h[c].pc = "err"
    /\ ev' = [op |-> "send", who |-> c, type |-> "error", to |-> {c},
              ok |-> IF up[c] THEN {c} ELSE {}, message |-> h[c].message]
    /\ IF up[c]
       THEN /\ h' = [h EXCEPT ![c].pc = "recv", ![c].message = ""]
            /\ UNCHANGED << active_connections, last_click_time, up >>
       ELSE Except(c)
    /\ UNCHANGED << now, cards, round_end_time, lock, leaderboard, loop,
                    roundNo, env, lifecycle >>

\* update_score's ZINCRBY returns or raises
UpdateScore(c) ==
    /\ h[c].pc = "upd"
    /\ \E ok \in Outcomes :
        /\ Outcome(ok)
        /\ IF ok
           THEN /\ leaderboard' =
                       update_score(h[c].client_id, NicknameOf(c), h[c].score_change)
                /\ h' = [h EXCEPT ![c].pc = "fb"]
                /\ ev' = [op |-> "update_score", who |-> c]
                /\ UNCHANGED << active_connections, last_click_time, up >>
           ELSE /\ Except(c)
                /\ ev' = [op |-> "raise", who |-> c]
                /\ UNCHANGED leaderboard
    /\ UNCHANGED << now, cards, round_end_time, lock, loop, roundNo,
                    lifecycle >>

SendFeedback(c) ==
    /\ h[c].pc = "fb"
    /\ ev' = [op |-> "send", who |-> c, type |-> "feedback", to |-> {c},
              ok |-> IF up[c] THEN {c} ELSE {}]
    /\ IF up[c]
       THEN /\ h' = [h EXCEPT ![c].pc = "lb1"]
            /\ UNCHANGED << active_connections, last_click_time, up >>
       ELSE Except(c)
    /\ UNCHANGED << now, cards, round_end_time, lock, leaderboard, loop,
                    roundNo, env, lifecycle >>

\* get_leaderboard() returns or raises; the broadcast's sends are started
\* (with nobody registered broadcast returns at once: back to receive_json)
GetLeaderboard(c) ==
    /\ h[c].pc = "lb1"
    /\ \E ok \in Outcomes :
        /\ Outcome(ok)
        /\ IF ok
           THEN LET targets == BroadcastTargets
                IN  /\ h' = IF targets = {}
                            THEN [h EXCEPT ![c].pc = "recv", ![c].guess = "", ![c].card = NoCard,
                                           ![c].score_change = 0]
                            ELSE [h EXCEPT ![c].pc = "bc", ![c].targets = targets]
                    /\ ev' = [op |-> "get_leaderboard", who |-> c, to |-> targets]
                    /\ UNCHANGED << active_connections, last_click_time, up >>
           ELSE /\ Except(c)
                /\ ev' = [op |-> "raise", who |-> c]
    /\ UNCHANGED << now, cards, round_end_time, lock, leaderboard, loop,
                    roundNo, lifecycle >>

BroadcastLeaderboard(c) ==
    /\ h[c].pc = "bc"
    /\ LET r == broadcast(h[c].targets)
       IN  /\ ev' = [op |-> "broadcast", who |-> c, type |-> "leaderboard_update",
                     to |-> r.to, ok |-> r.ok, raised |-> r.raised]
           /\ IF r.raised
              THEN Except(c)
              ELSE /\ h' = [h EXCEPT ![c].pc = "recv", ![c].guess = "", ![c].card = NoCard,
                                     ![c].score_change = 0, ![c].targets = {}]
                   /\ UNCHANGED << active_connections, last_click_time, up >>
    /\ UNCHANGED << now, cards, round_end_time, lock, leaderboard, loop,
                    roundNo, env, lifecycle >>

\* the peer goes away, or the transport breaks
Drop(c) ==
    /\ h[c].pc \notin {"idle", "done"}
    /\ up[c]
    /\ env.faults > 0
    /\ env' = [env EXCEPT !.faults = @ - 1]
    /\ up' = [up EXCEPT ![c] = FALSE]
    /\ ev' = [op |-> "drop", who |-> c]
    /\ UNCHANGED << now, cards, round_end_time, lock, active_connections,
                    last_click_time, leaderboard, loop, roundNo, h,
                    lifecycle >>

websocket_endpoint(c) ==
    \/ Connect(c)
    \/ AcquireJoin(c)
    \/ SendGameState(c)
    \/ JoinGetLeaderboard(c)
    \/ JoinSendLeaderboard(c)
    \/ Receive(c)
    \/ ReceiveDisconnect(c)
    \/ SendError(c)
    \/ UpdateScore(c)
    \/ SendFeedback(c)
    \/ GetLeaderboard(c)
    \/ BroadcastLeaderboard(c)

Next ==
    \/ Tick
    \/ game_loop
    \/ \E c \in Conns : websocket_endpoint(c) \/ Drop(c)

Spec == Init /\ [][Next]_vars

SpecTwo == InitTwo /\ [][Next]_vars

SpecSame == InitSame /\ [][Next]_vars

\* --------------------------------------------------------------- claims

\* what the claims read off a state, written out from the round state and
\* the registry themselves
Expired == round_end_time # None /\ now >= Val(round_end_time)
Inactive == round_end_time = None \/ Expired
SecondsLeft ==
    IF Inactive THEN 0 ELSE (Val(round_end_time) - now) \div TicksPerSecond
WellFormed(data) == {"action", "card_id"} \subseteq DOMAIN data
TooSoon(client_id) ==
    /\ client_id \in DOMAIN last_click_time
    /\ now - last_click_time[client_id] < CooldownTicks
Registered == { active_connections[k] : k \in DOMAIN active_connections }
Received(c) == ev.op = "recv" /\ ev.who = c
Scored(c) == Received(c) /\ h[c].pc = "upd"
Correct(c) ==
    h[c].card.label = IF ev.data.action = "approve" THEN "legitimo" ELSE "pirata"
Base(d) == CASE d = 1 -> 30 [] d = 2 -> 60 [] d = 3 -> 100
Penalty(d) == CASE d = 1 -> 0 - 20 [] d = 2 -> 0 - 30 [] d = 3 -> 0 - 40

\* C1: the new_round and round_end broadcasts of game_loop alternate,
\* starting with new_round: no round_end comes before the first new_round,
\* and between two consecutive new_round broadcasts there is exactly one
\* round_end.
C1_LifecycleAlternates ==
    \A i \in 1..Len(lifecycle) :
        lifecycle[i].type = IF i % 2 = 1 THEN "new_round" ELSE "round_end"

\* two new_round broadcasts with a round_end between them have been made
C1_Witness ==
    /\ Len(lifecycle) = 3
    /\ lifecycle[1].type = "new_round"
    /\ lifecycle[3].type = "new_round"

\* C2: an incorrect guess is scored -20, -30 or -40 for a card of difficulty
\* 1, 2 or 3, whatever the time remaining.
C2_PenaltyByDifficulty ==
    \A c \in Conns :
        (Scored(c) /\ ~Correct(c))
            => h[c].score_change = Penalty(h[c].card.difficulty)

\* C3: a correct guess on a card of difficulty d is scored
\* base(d) + floor(base(d) * t / 60), t the seconds remaining when the
\* handler scores it; t is within 0..60 and the delta within
\* base(d)..2*base(d).
C3_CorrectDelta ==
    \A c \in Conns :
        (Scored(c) /\ Correct(c) /\ h[c].card.difficulty \in Difficulties)
            => LET b == Base(h[c].card.difficulty)
                   t == SecondsLeft
               IN  /\ t \in 0..ROUND_DURATION_SECONDS
                   /\ h[c].score_change = b + (b * t) \div ROUND_DURATION_SECONDS
                   /\ b <= h[c].score_change
                   /\ h[c].score_change <= 2 * b

\* a correct guess on a difficulty-3 card with 59 seconds left: the bonus
\* 98.33 is floored
C3_Witness ==
    \E c \in Conns :
        /\ Scored(c) /\ Correct(c)
        /\ h[c].card.difficulty = 3
        /\ SecondsLeft = 59
        /\ h[c].score_change = 198

\* C4: a guess that reaches is_on_cooldown less than the cooldown interval
\* after its session's stamp is rejected and leaves every stamp as it was;
\* otherwise (no stamp, or the interval or more elapsed) it is accepted and the
\* session's stamp becomes the current time. The check and the stamp are one
\* step.
C4_CooldownCheckAndStamp ==
    [][ \A c \in Conns :
          (ev'.op = "recv" /\ ev'.who = c /\ WellFormed(ev'.data) /\ ~Inactive)
            => LET id == h[c].client_id
               IN  IF TooSoon(id)
                   THEN /\ h'[c].pc = "err"
                        /\ h'[c].message = "Cooldown active."
                        /\ last_click_time' = last_click_time
                   ELSE /\ h'[c].pc # "err"
                        /\ last_click_time' =
                             [k \in DOMAIN last_click_time \cup {id} |->
                                 IF k = id THEN now ELSE last_click_time[k]]
      ]_vars

\* a second guess, later than the stamp but within the interval, was rejected
C4_Witness ==
    \E c \in Conns :
        /\ Received(c)
        /\ h[c].message = "Cooldown active."
        /\ last_click_time[h[c].client_id] < now
        /\ now - last_click_time[h[c].client_id] < CooldownTicks

\* C5: the round is inactive exactly when no round has started yet or the
\* clock is at or past the expiration; the time remaining is 0 when it is
\* inactive and within 0..60 otherwise.
C5_ActiveAndRemaining ==
    /\ ~is_round_active <=> (roundNo = 0 \/ Expired)
    /\ ~is_round_active => get_time_remaining = 0
    /\ is_round_active => get_time_remaining \in 0..ROUND_DURATION_SECONDS

\* a round has started and has expired
C5_Witness ==
    /\ roundNo > 0
    /\ Expired
    /\ now > Val(round_end_time)
    /\ ~is_round_active
    /\ get_time_remaining = 0

\* C6: a broadcast sends to every socket registered when it was called; a
\* send that fails keeps no other socket from getting the message, and the
\* failure is not raised: the caller goes on as after any broadcast.
C6_BroadcastIsolation ==
    [][ /\ (ev'.op \in {"new_round", "round_end"})
            => /\ ev'.to = Registered
               /\ ev'.to # {} => loop'.targets = Registered
        /\ (ev'.op = "get_leaderboard" /\ h'[ev'.who].pc = "bc")
            => h'[ev'.who].targets = Registered
        /\ (ev'.op = "broadcast")
            => LET targets == IF ev'.who = Loop THEN loop.targets
                              ELSE h[ev'.who].targets
               IN  /\ ev'.to = targets
                   /\ \A t \in targets : up[t] => t \in ev'.ok
                   /\ ~ev'.raised
                   /\ active_connections' = active_connections
                   /\ IF ev'.who = Loop
                      THEN loop'.pc \in {"sleep", "pause"}
                      ELSE h'[ev'.who].pc = "recv"
      ]_vars

\* one broadcast to both connections: one send failed, the other arrived
C6_Witness ==
    /\ ev.op = "broadcast"
    /\ ev.to = Conns
    /\ Cardinality(ev.ok) = 1

\* C7: when deck generation fails the round starts all the same: the deck is
\* the one fallback card, the expiration is now + the round duration,
\* new_round is broadcast with that deck to the registered sockets, no
\* handler is made to send anything, and game_loop goes on.
C7_FallbackRound ==
    [][ (loop.pc = "generate" /\ loop'.pc # "generate" /\ ~loop'.gen_ok)
            => /\ cards' = << [id |-> << roundNo + 1, 1 >>, label |-> "pirata",
                               difficulty |-> 1] >>
               /\ round_end_time' = Some(now + RoundTicks)
               /\ lifecycle' =
                    Append(lifecycle, [type |-> "new_round", cards |-> cards'])
               /\ ev'.op = "new_round"
               /\ ev'.to = Registered
               /\ loop'.pc = IF Registered = {} THEN "sleep" ELSE "bc_new"
               /\ h' = h
      ]_vars

\* a round on the fallback deck was followed by its round_end and by the
\* next new_round
C7_Witness ==
    /\ Len(lifecycle) = 3
    /\ Len(lifecycle[1].cards) = 1
    /\ lifecycle[2].type = "round_end"
    /\ lifecycle[3].type = "new_round"

\* C8: a well-formed guess that arrives while the round is inactive or the
\* session is on cooldown changes nothing but the handler's position: it is
\* answered with one error, sent to the guessing socket alone; no score, no
\* stamp and no round state changes and nothing is broadcast (when that send
\* itself fails the session is deregistered as for any transport fault).
C8_RejectedGuess ==
    [][ \A c \in Conns :
          /\ (/\ ev'.op = "recv" /\ ev'.who = c /\ WellFormed(ev'.data)
              /\ (Inactive \/ TooSoon(h[c].client_id)))
                => /\ h' = [h EXCEPT ![c].pc = "err",
                                     ![c].message =
                                        IF Inactive THEN "Round not active."
                                        ELSE "Cooldown active."]
                   /\ UNCHANGED << cards, round_end_time, lock, active_connections,
                                   last_click_time, leaderboard, loop, lifecycle,
                                   up >>
          /\ (h[c].pc = "err" /\ h'[c] # h[c])
                => /\ ev' = [op |-> "send", who |-> c, type |-> "error",
                             to |-> {c}, ok |-> IF up[c] THEN {c} ELSE {},
                             message |-> h[c].message]
                   /\ \A d \in Conns \ {c} : h'[d] = h[d]
                   /\ UNCHANGED << cards, round_end_time, lock, leaderboard, loop,
                                   lifecycle >>
                   /\ up[c] => /\ h'[c] = [h[c] EXCEPT !.pc = "recv",
                                                      !.message = ""]
                               /\ UNCHANGED << active_connections,
                                               last_click_time, up >>
      ]_vars

\* the cooldown error reached the guessing socket while the other socket
\* was registered and working
C8_Witness ==
    /\ ev.op = "send"
    /\ ev.type = "error"
    /\ ev.message = "Cooldown active."
    /\ ev.ok = {"c1"}
    /\ "c2" \in Registered
    /\ up["c2"]

\* C9: an inbound message without an action or without a card_id is
\* answered with an error sent to its socket.
C9_MalformedGetsError ==
    \A c \in Conns :
        (Received(c) /\ ~WellFormed(ev.data)) => h[c].pc = "err"

\* C10: a guess that passes the active-round and cooldown checks and names
\* a card id that is not in the deck is dropped: the handler is back at
\* receive_json with nothing to send, no score is changed and nothing is
\* broadcast.
C10_UnmatchedDropped ==
    [][ \A c \in Conns :
          (/\ ev'.op = "recv" /\ ev'.who = c /\ WellFormed(ev'.data)
           /\ ~Inactive
           /\ ~TooSoon(h[c].client_id)
           /\ \A i \in 1..Len(cards) : cards[i].id # ev'.data.card_id)
            => /\ h' = h
               /\ h[c].pc = "recv"
               /\ UNCHANGED << cards, round_end_time, lock, active_connections,
                               leaderboard, loop, lifecycle, up >>
      ]_vars

\* in the second round a guess named a card of the first round's deck
C10_Witness ==
    \E c \in Conns :
        /\ Received(c)
        /\ ev.path = "unmatched"
        /\ roundNo = 2
        /\ ev.data.card_id[1] = 1
        /\ ~Inactive

\* C11: a transport fault or disconnect at any send or receive of a handler,
\* the sends right after connect included, deregisters the session: once
\* the handler has ended on it the registry holds no entry for the socket.
C11_EndedIsDeregistered ==
    \A c \in Conns :
        (ev.op \in {"send", "disconnect"} /\ ev.who = c /\ h[c].pc = "done")
            => c \notin Registered

\* C12: the deck and the expiration are swapped in one step, under the lock,
\* and both belong to the round just generated; a handler's join snapshot
\* and the card a guess is scored on are read from the state of one step.
C12_RoundStateSwappedWhole ==
    /\ [](cards # << >> =>
            /\ round_end_time # None
            /\ \A i \in 1..Len(cards) : cards[i].id[1] = roundNo)
    /\ [][ /\ (cards' # cards) <=> (round_end_time' # round_end_time)
           /\ (cards' # cards)
                => /\ lock = Loop
                   /\ round_end_time' = Some(now + RoundTicks)
                   /\ \A i \in 1..Len(cards') : cards'[i].id[1] = roundNo'
           /\ \A c \in Conns :
                /\ (h'[c].pc = "gs" /\ h[c].pc # "gs")
                      => /\ ~Inactive
                         /\ h'[c].snapshot =
                              Some([cards |-> cards,
                                    expires_at |-> round_end_time])
                /\ (ev'.op = "recv" /\ ev'.who = c /\ h'[c].pc = "upd")
                      => /\ ~Inactive
                         /\ \E i \in 1..Len(cards) : cards[i] = h'[c].card
         ]_vars

\* a guess was scored on a card of the second round, after the swap
C12_Witness ==
    \E c \in Conns :
        /\ Scored(c)
        /\ roundNo = 2
        /\ h[c].card.id[1] = 2
        /\ Val(round_end_time) > RoundTicks + PauseTicks

\* C13: the lifecycle task never ends, whatever the deck generator, the
\* leaderboard store and the transports do.
C13_LoopNeverEnds == loop.pc # "dead"

\* C14: once an accepted guess's delta has been added to the store, its
\* handler goes on to the feedback message and to the leaderboard_update
\* broadcast: no increment is left without the broadcast that follows it.
C14_IncrementIsBroadcast ==
    [][ \A c \in Conns :
          (h[c].pc \in {"fb", "lb1"} /\ h'[c] # h[c])
            => \/ h'[c].pc \in {"lb1", "bc"}
               \/ h'[c].pc = "recv" /\ Registered = {}
      ]_vars

\* C15: the leaderboard read for round_end is the round's final ranking: from
\* that read until the loop starts the next round the store shows what
\* round_end carries.
C15_RoundEndIsFinal ==
    loop.pc \in {"bc_end", "pause"} => get_leaderboard = loop.final_leaderboard

\* C16: start_new_round obtains the deck before it resets the leaderboard:
\* when the leaderboard has just been cleared the deck request is not still
\* ahead.
C16_DeckBeforeReset ==
    (ev.op = "reset" /\ ev.who = Loop) => loop.pc # "generate"

\* C17: only a guess that is scored moves its session's cooldown stamp; a
\* message that is malformed, rejected or dropped leaves every stamp as it
\* was.
C17_OnlyScoredStamps ==
    [][ \A c \in Conns :
          (ev'.op = "recv" /\ ev'.who = c /\ h'[c].pc # "upd")
            => last_click_time' = last_click_time
      ]_vars

\* C18: a joining handler sends game_state at most once, holding the lock
\* (so never while start_new_round is under way), only when the round was
\* active when it looked, and with the deck and expiration of that round; a
\* handler that joins while no round is active sends no game_state.
C18_JoinSnapshot ==
    [][ \A c \in Conns :
          /\ (ev'.op = "send" /\ ev'.who = c /\ ev'.type = "game_state")
                => /\ h[c].pc = "gs"
                   /\ lock = c
                   /\ loop.pc \notin {"delete", "generate", "bc_new"}
                   /\ cards # << >>
                   /\ ev'.cards = cards
                   /\ ev'.expires_at = round_end_time
          /\ (h'[c].pc = "gs" /\ h[c].pc # "gs")
                => /\ h[c].pc \in {"idle", "lock"}
                   /\ ~Inactive
                   /\ lock = Free
                   /\ lock' = c
          /\ (h[c].pc \in {"idle", "lock"} /\ h'[c].pc \notin {"idle", "lock", "gs"})
                => /\ Inactive
                   /\ h'[c].pc = "lb0"
          /\ (h[c].pc \notin {"idle", "lock", "gs"}) => h'[c].pc # "gs"
      ]_vars

\* game_state with the current deck reached a socket that joined mid-round
C18_Witness ==
    \E c \in Conns :
        /\ ev.op = "send" /\ ev.who = c /\ ev.type = "game_state"
        /\ ev.ok = {c}
        /\ ev.cards = cards
        /\ Len(ev.cards) > 1
        /\ h[c].pc = "lb0"
        /\ lock = Free

\* C19: scores never cross a round boundary: an increment that has just
\* been applied is for a card of the round whose reset was the last one.
C19_ScoresOfThisRound ==
    \A c \in Conns :
        (ev.op = "update_score" /\ ev.who = c)
            => h[c].card.id[1] = roundNo + (IF loop.pc = "generate" THEN 1 ELSE 0)

\* C20: a connection whose handler is running past its join stays a
\* broadcast target: while it is registered and its handler keeps running,
\* the registry is not left without an entry for its client id, whatever
\* another connection under that id does.
C20_RegisteredWhileRunning ==
    [][ \A c \in Conns :
          (/\ c \in Registered
           /\ h'[c].pc \in {"recv", "err", "upd", "fb", "lb1", "bc"})
            => h[c].client_id \in DOMAIN active_connections'
      ]_vars

====
